---- MODULE Spec2Model ----
(***************************************************************************)
(* Model of the plotting core of luxgiant-dstream                          *)
(* (src/luxgiant_dstream/plots.py) and of its driver                       *)
(* (src/luxgiant_dstream/gwas_random.py).                                   *)
(*                                                                         *)
(* A pandas table is a sequence of records (one record per row, its        *)
(* fields the columns).  A Python call is one action: it leaves the        *)
(* caller's idle state, binds its arguments and runs to its return or to   *)
(* the exception it raises.  The confidence-band loop of qq_plot is        *)
(* modelled one iteration per step.                                        *)
(*                                                                         *)
(* Real numbers are fixed-point integers in units of 10^-5 (Scale); the    *)
(* decimal logarithm is a table of exact values truncated to that unit.    *)
(***************************************************************************)
EXTENDS Integers, Sequences, FiniteSets, TLC

VARIABLES
    pc,          \* position of the running call ("idle" before it)
    result,      \* the value the call returned ("none" before it returns)
    exception,   \* the exception the call raised ("none" when none)
    data,        \* compute_relative_pos: the table passed in
    rel_data,    \* compute_relative_pos: the table returned
    pvalues,     \* qq_plot: df_gwas['p'], in tenths
    qq_n,        \* qq_plot: n
    ranks,       \* qq_plot: stats.rankdata(pvalues, method='ordinal')
    log_p,       \* qq_plot: log_p
    exp_x,       \* qq_plot: exp_x
    thin,        \* qq_plot: the data frame thin
    axis_range,  \* qq_plot: axis_range
    passes,      \* how many times the thinning block has run on these arrays
    budget,      \* plot_confidence_interval: conf_points as passed in
    conf_points, \* plot_confidence_interval: conf_points after line 263
    qq_i,        \* plot_confidence_interval: the loop variable i
    mpts,        \* plot_confidence_interval: the polygon mpts
    writes,      \* how many iterations have assigned each row of mpts
    df_top_highlts,    \* classify_annotations: the top table passed in
    df_bottom_highlts, \* classify_annotations: the bottom table passed in
    classified,        \* classify_annotations: the table returned
    df_top,            \* miami_plot: the caller's top association table
    df_bottom,         \* miami_plot: the caller's bottom association table
    top_higlights,     \* miami_plot: the caller's top highlights, or None
    bottom_higlights,  \* miami_plot: the caller's bottom highlights, or None
    plot_data,         \* miami_plot: plot_data
    split_annotations, \* miami_plot: split_annotations
    ax_upper,          \* miami_plot: what ax_upper is bound to and shows
    ax_lower,          \* miami_plot: what ax_lower is bound to and shows
    df_gwas,           \* manhattan_plot: the caller's association table
    df_annot,          \* manhattan_plot: the annotation table, or None
    annotate,          \* manhattan_plot: annotate
    plots_dir,         \* manhattan_plot: plots_dir, or None
    df,                \* manhattan_plot: df
    snps,              \* manhattan_plot: snps, once bound
    genes,             \* manhattan_plot: genes, once bound
    highlighted_snps,  \* manhattan_plot: highlighted_snps, once bound
    ax,                \* manhattan_plot: what the axes show
    variant_context,   \* annotate_top_hits: what get_variant_context returns per row
    df_hits,           \* annotate_top_hits: df_hits
    context,           \* annotate_top_hits: context
    hit_k              \* annotate_top_hits: the loop variable k

coord_vars == <<data, rel_data>>
qq_vars == <<pvalues, qq_n, ranks, log_p, exp_x, thin, axis_range, passes>>
band_vars == <<budget, conf_points, qq_i, mpts, writes>>
classify_vars == <<df_top_highlts, df_bottom_highlts, classified>>
miami_vars == <<df_top, df_bottom, top_higlights, bottom_higlights, plot_data,
                split_annotations, ax_upper, ax_lower>>
manhattan_vars == <<df_gwas, df_annot, annotate, plots_dir, df, snps, genes,
                    highlighted_snps, ax>>
hits_vars == <<variant_context, df_hits, context, hit_k>>
vars == <<pc, result, exception, coord_vars, qq_vars, band_vars, classify_vars,
          miami_vars, manhattan_vars, hits_vars>>

-----------------------------------------------------------------------------
(* Bounds of the model *)

\* rows of an association table
MaxRows == 3

\* p-values of a QQ plot
MaxN == 4
\* n and the point budget passed to plot_confidence_interval on its own
MaxBandN == 6
MaxBudget == 4
\* points of an array handed to the thinning step on its own
MaxThin == 3
\* times the thinning step is applied to its own output
MaxPasses == 2

\* rows of an annotation (highlights) table
MaxAnnot == 2

\* rows of the table of top hits
MaxHits == 2

\* base-pair positions used in the tables (position 0 is a legal coordinate)
Positions == {0, 50, 100, 200, 300}

\* chromosome ids used in the tables
Chromosomes == {1, 2, 3}

\* variant ids used in the association tables, and one more that only
\* annotation tables name
Variants == {1, 2, 3}
AnnotVariants == {1, 2, 3, 4}

\* gene names used in the annotation tables handed to classify_annotations
Genes == {"A", "B"}

\* p-values used in the tables, in tenths: 0.1, 0.2, 0.5 and 1.0
PTenths == {1, 2, 5, 10}

\* -log10 values handed to the thinning step on its own, in units of 10^-5:
\* below, at and above the middle of a rounding step
ObservedSamples == {49, 50, 150, 151}
ExpectedSamples == {0, 51}

-----------------------------------------------------------------------------
(* Generic helpers over sequences and sets *)

SetMax(S) == CHOOSE x \in S : \A y \in S : y <= x
SetMin(S) == CHOOSE x \in S : \A y \in S : x <= y

\* the elements of a finite set of integers in ascending order
RECURSIVE Ascending(_)
Ascending(S) ==
    IF S = {} THEN <<>>
    ELSE <<SetMin(S)>> \o Ascending(S \ {SetMin(S)})

\* log10(k) for k = 1..24, in units of 10^-5
Log10Tab ==
    <<0, 30103, 47712, 60206, 69897, 77815, 84510, 90309, 95424, 100000,
      104139, 107918, 111394, 114613, 117609, 120412, 123045, 125527,
      127875, 130103, 132222, 134242, 136173, 138021>>

\* -np.log10(num / den), in units of 10^-5
NegLog10(num, den) == Log10Tab[den] - Log10Tab[num]

\* a row without its column c
DropColumn(row, c) == [f \in (DOMAIN row) \ {c} |-> row[f]]

-----------------------------------------------------------------------------
(* compute_relative_pos, plots.py 451-492 *)

\* all tables of n rows with columns CHR, POS, p (p = 0.5 throughout)
RowsOf(n) == [1..n -> [CHR : Chromosomes, POS : Positions, p : {5}]]

\* chrlength aggregated with 'min' in place of 'max'
chrlength_min(t, c) == SetMin({t[i].POS : i \in {j \in DOMAIN t : t[j].CHR = c}})

\* data.groupby(chr_col).agg(chrlength=(pos_col,'max')): one value per chromosome
chrlength(t, c) == SetMax({t[i].POS : i \in {j \in DOMAIN t : t[j].CHR = c}})

\* the group keys of groupby, which sorts them ascending
chr_grouped(t) == Ascending({t[i].CHR : i \in DOMAIN t})

\* chr_grouped['chrlength'].cumsum() up to and including row k of the
\* group keys g
RECURSIVE cumsum(_, _, _)
cumsum(t, g, k) ==
    IF k = 0 THEN 0
    ELSE cumsum(t, g, k - 1) + chrlength(t, g[k])

\* the row of chromosome c among the group keys g
group_row(g, c) == CHOOSE k \in DOMAIN g : g[k] = c

\* the cumulative sum taken without subtracting the chromosome's own length
cumulativechrlength_inclusive(t, c) ==
    cumsum(t, chr_grouped(t), group_row(chr_grouped(t), c))

\* cumulativechrlength = cumsum - chrlength, for the chromosome c of the table
cumulativechrlength(t, c) ==
    cumsum(t, chr_grouped(t), group_row(chr_grouped(t), c)) - chrlength(t, c)

\* the order of sort_values(by=[chr_col, pos_col])
ChrPosLess(a, b) == a.CHR < b.CHR \/ (a.CHR = b.CHR /\ a.POS < b.POS)

\* the place of each row after a stable sort: one more than the number of
\* rows that sort before it, rows with equal keys keeping their order
sort_places(t) ==
    [i \in DOMAIN t |->
        1 + Cardinality({j \in DOMAIN t :
                \/ ChrPosLess(t[j], t[i])
                \/ (~ChrPosLess(t[i], t[j]) /\ j < i)})]

\* the rows of t put at their places
take_places(t, place) == [k \in DOMAIN t |-> t[CHOOSE i \in DOMAIN t : place[i] = k]]

\* data.sort_values(by=[chr_col, pos_col])
sort_values(t) == take_places(t, sort_places(t))

\* pd.merge(data, chr_grouped[[chr_col, 'cumulativechrlength']], on=chr_col)
merge_offsets(t, offset) ==
    [i \in DOMAIN t |-> t[i] @@ [cumulativechrlength |-> offset[t[i].CHR]]]

\* lines 485-490: rel_pos is added, the offset column dropped, log10p added
add_rel_pos(sorted) ==
    [i \in DOMAIN sorted |->
        [rel_pos |-> sorted[i].POS + sorted[i].cumulativechrlength,
         log10p |-> NegLog10(sorted[i].p, 10)]
            @@ DropColumn(sorted[i], "cumulativechrlength")]

\* the whole function: merge the offsets in, sort, add rel_pos
compute_relative_pos(t) ==
    add_rel_pos(sort_values(merge_offsets(t,
        [c \in {t[i].CHR : i \in DOMAIN t} |-> cumulativechrlength(t, c)])))

-----------------------------------------------------------------------------
(* qq_plot, plots.py 190-306 *)

\* np.round(v, 3) rounding up from the middle of a step
round3_half_up(v) == 100 * ((v + 50) \div 100)

\* np.round(v, 3) on a value in units of 10^-5: to the nearest multiple of
\* 100, the middle of a step going to the even multiple
np_round3(v) ==
    LET q == v \div 100
        r == v % 100
    IN  IF r < 50 THEN 100 * q
        ELSE IF r > 50 THEN 100 * (q + 1)
        ELSE IF q % 2 = 0 THEN 100 * q ELSE 100 * (q + 1)

\* the place of each element in a stable ascending sort
argsort_places(a) ==
    [i \in DOMAIN a |->
        1 + Cardinality({j \in DOMAIN a : a[j] < a[i] \/ (a[j] = a[i] /\ j < i)})]

\* np.argsort(a, kind='mergesort'): the indices of a in ascending order of
\* value, equal values in index order
argsort(a) == take_places([i \in DOMAIN a |-> i], argsort_places(a))

\* the ranks taken in descending order of value
rankdata_descending(a) ==
    [i \in DOMAIN a |->
        1 + Cardinality({j \in DOMAIN a : a[j] > a[i] \/ (a[j] = a[i] /\ j < i)})]

\* inv[sorter] = arange(n); inv + 1
inverse_plus_one(sorter) ==
    [i \in DOMAIN sorter |-> CHOOSE k \in DOMAIN sorter : sorter[k] = i]

\* stats.rankdata(a, method='ordinal'): the inverse of the stable argsort, + 1
rankdata(a) == inverse_plus_one(argsort(a))

\* -np.log10((rank - 0.5) / n) for every rank
expected_values(rk, m) == [i \in DOMAIN rk |-> NegLog10(2 * rk[i] - 1, 2 * m)]

\* the rows of frame f at the indices keep, in index order
TakeRows(f, keep) ==
    [k \in 1..Cardinality(keep) |->
        f[CHOOSE i \in keep : Cardinality({j \in keep : j <= i}) = k]]

\* DataFrame.drop_duplicates(keep='last')
drop_duplicates_last(f) ==
    TakeRows(f, {i \in DOMAIN f : \A j \in (i + 1)..Len(f) : f[j] # f[i]})

\* DataFrame.drop_duplicates(): the first of equal rows is kept
drop_duplicates(f) ==
    TakeRows(f, {i \in DOMAIN f : \A j \in 1..(i - 1) : f[j] # f[i]})

\* pd.DataFrame({'pvalues': np.round(log_p, 3), 'exp_x': np.round(exp_x, 3)})
rounded_frame(lp, ex) ==
    [i \in DOMAIN lp |-> [pvalues |-> np_round3(lp[i]), exp_x |-> np_round3(ex[i])]]

\* the conf_points argument of the call at line 282
ConfPointsArg == 1500

\* conf_alpha of the call at line 282, in thousandths
ConfAlpha == 50

\* the value -np.log10(stats.beta.ppf(q, a, b)), q in thousandths: the
\* quantile is kept as the arguments it is taken with
BetaBound(q, a, b) == [q |-> q, a |-> a, b |-> b]

\* a cell np.zeros left untouched, in the y column
ZeroBound == [q |-> 0, a |-> 0, b |-> 0]

\* the row (counted from 1) the lower bound of rank r is stored in, were the
\* lower bounds stored in ascending rank after the upper ones
lower_row_ascending(k, r) == k + r

\* the row (counted from 1) of mpts[conf_points * 2 - i]
lower_row(k, r) == k * 2 - r + 1

\* the row (counted from 1) of mpts[i - 1]
upper_row(k, r) == r

Min2(a, b) == IF a <= b THEN a ELSE b

-----------------------------------------------------------------------------
(* Optional arguments: None, or the one value the name is bound to *)

None == <<>>
Some(v) == <<v>>

-----------------------------------------------------------------------------
(* classify_annotations, plots.py 565-592 *)

\* the SNP column of a table, as a set
SnpSet(t) == {t[i].SNP : i \in DOMAIN t}

\* t[['SNP']]
snp_column(t) == [i \in DOMAIN t |-> [SNP |-> t[i].SNP]]

\* pd.merge(left, right, on='SNP', how='inner'): every left row, in order,
\* once with each right row of the same SNP
\* how='left' in place of how='inner': left rows without a match are kept
merge_left(left, right) == left

RECURSIVE merge(_, _)
merge(left, right) ==
    IF left = <<>> THEN <<>>
    ELSE LET l == Head(left)
             m == SelectSeq(right, LAMBDA r : r.SNP = l.SNP)
         IN  [k \in DOMAIN m |-> l @@ m[k]] \o merge(Tail(left), right)

\* t[column] = value, on every row
set_column_type(t, value) == [i \in DOMAIN t |-> [type |-> value] @@ t[i]]

\* the filter without its negation
rows_isin(t, other) == SelectSeq(t, LAMBDA r : r.SNP \in SnpSet(other))

\* t[~t['SNP'].isin(other['SNP'])]
rows_not_isin(t, other) == SelectSeq(t, LAMBDA r : r.SNP \notin SnpSet(other))

classify_annotations(top, bottom) ==
    LET df_both == set_column_type(merge(top, snp_column(bottom)), "on_both")
        df_top_in_bottom == set_column_type(rows_not_isin(top, bottom), "top_in_bottom")
        df_bottom_in_top == set_column_type(rows_not_isin(bottom, top), "bottom_in_top")
    IN  df_both \o df_top_in_bottom \o df_bottom_in_top

\* annotation tables of n rows with columns SNP, GENE
AnnotRows(n) == [1..n -> [SNP : Variants, GENE : Genes]]

-----------------------------------------------------------------------------
(* miami_plot and its helpers, plots.py 308-449 and 494-628 *)

\* the chromosome and the position of each variant id
VariantChr == <<1, 1, 2>>
VariantPos == <<100, 200, 50>>

\* the gene an annotation table gives each variant id
VariantGene == <<"G1", "G2", "G3", "G4">>

\* the association table holding the variants S, in ascending id, all with
\* p-value pv (in tenths)
AssocTable(S, pv) ==
    LET ids == Ascending(S)
    IN  [i \in DOMAIN ids |->
            [SNP |-> ids[i], CHR |-> VariantChr[ids[i]], POS |-> VariantPos[ids[i]],
             p |-> pv]]

\* the annotation tables of n rows, no id twice, with columns SNP, GENE
UniqueAnnotRows(n) ==
    {[i \in 1..n |-> [SNP |-> f[i], GENE |-> VariantGene[f[i]]]] :
        f \in {g \in [1..n -> AnnotVariants] : \A i, j \in 1..n : g[i] = g[j] => i = j}}

\* an optional annotation table: None, or a table of at most MaxAnnot rows
OptionalAnnot ==
    {None} \cup {Some(t) : t \in UNION {UniqueAnnotRows(n) : n \in 0..MaxAnnot}}

\* t['split_by'] = value, on every row
set_column_split_by(t, value) == [i \in DOMAIN t |-> [split_by |-> value] @@ t[i]]

\* prepare_data, lines 444-449: both tables get the column, then are joined
prepare_data(data_top, data_bottom) ==
    set_column_split_by(data_top, "top") \o set_column_split_by(data_bottom, "bottom")

\* np.round(s / 2, 0): the middle of a step goes to the even integer
np_round_half(s) ==
    IF s % 2 = 0 THEN s \div 2
    ELSE IF (s \div 2) % 2 = 0 THEN s \div 2 ELSE s \div 2 + 1

\* data[chr_col].unique(): the chromosomes in their order of first appearance
RECURSIVE unique_chr(_)
unique_chr(t) ==
    IF t = <<>> THEN <<>>
    ELSE LET rest == unique_chr(SubSeq(t, 1, Len(t) - 1))
             c == t[Len(t)].CHR
         IN  IF \E k \in DOMAIN rest : rest[k] = c THEN rest ELSE Append(rest, c)

\* find_chromosomes_center, lines 514-525
chromosome_center(t, c) ==
    np_round_half(SetMax({t[i].rel_pos : i \in {j \in DOMAIN t : t[j].CHR = c}})
                  + SetMin({t[i].rel_pos : i \in {j \in DOMAIN t : t[j].CHR = c}}))

centers_of(t, chromosomes) ==
    [k \in DOMAIN chromosomes |->
        [CHR |-> chromosomes[k], center |-> chromosome_center(t, chromosomes[k])]]

find_chromosomes_center(t) == centers_of(t, unique_chr(t))

\* np.ceil of a value in units of 10^-5
np_ceil(v) == 100000 * ((v + 99999) \div 100000)

\* process_miami_data, lines 548-563
split_miami_data(joint) ==
    [upper |-> SelectSeq(joint, LAMBDA r : r.split_by = "top"),
     lower |-> SelectSeq(joint, LAMBDA r : r.split_by = "bottom"),
     axis |-> find_chromosomes_center(joint),
     maxp |-> np_ceil(SetMax({joint[i].log10p : i \in DOMAIN joint}))]

\* each table laid out on its own lengths and offsets
process_miami_data_separately(data_top, data_bottom) ==
    [upper |-> compute_relative_pos(set_column_split_by(data_top, "top")),
     lower |-> compute_relative_pos(set_column_split_by(data_bottom, "bottom")),
     axis |-> find_chromosomes_center(compute_relative_pos(prepare_data(data_top, data_bottom))),
     maxp |-> 0]

process_miami_data(data_top, data_bottom) ==
    split_miami_data(compute_relative_pos(prepare_data(data_top, data_bottom)))

\* gwas_data[['SNP', 'rel_pos', 'log10p']]
position_columns(t) ==
    [i \in DOMAIN t |-> [SNP |-> t[i].SNP, rel_pos |-> t[i].rel_pos, log10p |-> t[i].log10p]]

\* genes[snps.index(snp)]: the gene of the first annotation row with that id
gene_of(annotations, snp) ==
    annotations[SetMin({i \in DOMAIN annotations : annotations[i].SNP = snp})].GENE

\* a panel: the points scattered on it, the highlighted points and the text
\* labels
NewAxes(points) == [points |-> points, highlighted |-> <<>>, texts |-> <<>>]

\* lines 619-625: a label with the gene name at every row to annotate
text_labels(annotations, snps_to_annotate) ==
    [k \in DOMAIN snps_to_annotate |->
        [x |-> snps_to_annotate[k].rel_pos,
         y |-> snps_to_annotate[k].log10p,
         s |-> gene_of(annotations, snps_to_annotate[k].SNP)]]

\* lines 607-625: the highlighted rows are scattered and those of the types to
\* annotate labelled
draw_annotations(axes, annotations, highlighted, to_annotate) ==
    [points |-> axes.points,
     highlighted |-> axes.highlighted \o highlighted,
     texts |-> axes.texts \o
        text_labels(annotations,
                    SelectSeq(highlighted, LAMBDA r : r.type \in to_annotate))]

\* annotate_miami, lines 595-629: the panel is returned with the highlighted
\* points and the labels added
annotate_miami(axes, gwas_data, annotations, to_annotate) ==
    draw_annotations(axes, annotations,
                     merge(annotations, position_columns(gwas_data)), to_annotate)

\* the types labelled on the lower panel when both highlight tables are given
lower_to_annotate == {"on_both"}

\* the types labelled on the upper panel when both highlight tables are given
upper_to_annotate == {"on_both", "top_in_bottom"}

-----------------------------------------------------------------------------
(* manhattan_plot and its helpers, plots.py 30-188 *)

\* the variant ids of the association tables of manhattan_plot, on three
\* chromosomes, with their positions and their p-values in tenths
GwasVariants == {1, 2, 3, 4}
GwasChr == <<1, 1, 2, 3>>
GwasPos == <<100, 200, 50, 50>>
VariantP == <<1, 5, 2, 10>>

\* the row of variant v in an association table with columns SNP, CHR, bp, p
GwasRow(v) == [SNP |-> v, CHR |-> GwasChr[v], bp |-> GwasPos[v], p |-> VariantP[v]]

\* the association tables: any variants, each once, in any order
GwasTables ==
    UNION {{[i \in 1..n |-> GwasRow(f[i])] :
                f \in {g \in [1..n -> GwasVariants] : \A i, j \in 1..n : g[i] = g[j] => i = j}} :
            n \in 0..Cardinality(GwasVariants)}

\* a local name no assignment has bound yet
Unbound == <<>>

\* df['log10P'] = -np.log10(df['p'])
add_log10P(t) == [i \in DOMAIN t |-> [log10P |-> NegLog10(t[i].p, 10)] @@ t[i]]

\* the place of each row in df.sort_values(['CHR', 'bp'])
sort_places_bp(t) ==
    [i \in DOMAIN t |->
        1 + Cardinality({j \in DOMAIN t :
                \/ t[j].CHR < t[i].CHR
                \/ (t[j].CHR = t[i].CHR /\ t[j].bp < t[i].bp)
                \/ (t[j].CHR = t[i].CHR /\ t[j].bp = t[i].bp /\ j < i)})]

\* df['ind'] = range(len(df))
add_ind(t) == [i \in DOMAIN t |-> [ind |-> i - 1] @@ t[i]]

\* lines 52-59: the copy with log10P, sorted, with ind
prepare_df(t) == add_ind(take_places(add_log10P(t), sort_places_bp(add_log10P(t))))

\* the filter left out: every row
rows_unfiltered(t, ids) == t

\* df[df['SNP'].isin(snps)]
rows_with_snp_in(t, ids) == SelectSeq(t, LAMBDA r : \E k \in DOMAIN ids : ids[k] = r.SNP)

\* colors of draw_chrom_groups, line 130
colors == <<"grey", "skyblue">>

\* every group given the first colour
first_colour(num) == colors[1]

\* colors[num % len(colors)], num counted from 0
group_colour(num) == colors[(num % Len(colors)) + 1]

\* the number (from 0) of chromosome c among the groups of groupby('CHR')
group_number(t, c) == group_row(chr_grouped(t), c) - 1

\* line 140, over all groups: every row scattered in its group's colour
scatter_groups(t) ==
    [i \in DOMAIN t |->
        [x |-> t[i].ind, y |-> t[i].log10P, color |-> group_colour(group_number(t, t[i].CHR))]]

\* lines 143-149: a tick per group at the middle of its first and last ind;
\* the position is kept doubled, first ind + last ind
tick_of(t, c) ==
    [label |-> c,
     pos2 |-> SetMin({t[i].ind : i \in {j \in DOMAIN t : t[j].CHR = c}})
              + SetMax({t[i].ind : i \in {j \in DOMAIN t : t[j].CHR = c}})]

group_ticks(t, g) == [k \in DOMAIN g |-> tick_of(t, g[k])]

\* lines 151-153: the highlighted rows are scattered once in every iteration
RECURSIVE repeat_rows(_, _)
repeat_rows(rows, times) ==
    IF times = 0 THEN <<>> ELSE rows \o repeat_rows(rows, times - 1)

\* draw_chrom_groups, lines 129-155
draw_chrom_groups(t, highlighted) ==
    [points |-> scatter_groups(t),
     xticks |-> group_ticks(t, chr_grouped(t)),
     highlighted |-> IF highlighted = None THEN <<>>
                     ELSE repeat_rows(highlighted[1], Len(chr_grouped(t))),
     texts |-> <<>>]

\* the parameters of annotate_plot, line 157
annotate_plot_params == <<"ax", "highlighted_snps", "snps", "genes">>

\* the arguments of the call at line 79
annotate_plot_args == <<"ax", "highlighted_snps", "genes">>

\* annotate_plot, lines 178-188: a label per highlighted row
annotate_plot(axes, highlighted, snp_list, gene_list) ==
    [axes EXCEPT !.texts =
        [k \in DOMAIN highlighted |->
            [x |-> highlighted[k].ind,
             y |-> highlighted[k].log10P,
             s |-> gene_list[SetMin({i \in DOMAIN snp_list : snp_list[i] = highlighted[k].SNP})]]]]

\* -np.log10(5e-8), in units of 10^-5
GenomeLine == 730103

-----------------------------------------------------------------------------
(* GWASrandom.annotate_top_hits, gwas_random.py 273-330 *)

\* the Python string 'NA', character by character
NA == <<"N", "A">>

\* the non-empty contexts get_variant_context returns when the lookup succeeds
Contexts == {<<"G1">>, <<"G2", "G1">>}

\* what get_variant_context returns: None, or a context
LookupResults == {None} \cup {Some(c) : c \in Contexts}

\* df_hits[['Chr', 'SNP', 'bp']] of a file of n hits
HitRows(n) ==
    {[i \in 1..n |-> [Chr |-> VariantChr[f[i]], SNP |-> f[i], bp |-> VariantPos[f[i]]]] :
        f \in [1..n -> Variants]}

\* context[0]
element_zero(c) == Head(c)

\* df_hits.loc[k, 'GENE'] = gene: the column is created on first use, with
\* NaN in the rows not yet assigned
set_gene(t, row, gene) ==
    [i \in DOMAIN t |->
        IF i = row THEN [GENE |-> gene] @@ t[i]
        ELSE IF "GENE" \in DOMAIN t[i] THEN t[i]
        ELSE [GENE |-> "NaN"] @@ t[i]]

-----------------------------------------------------------------------------
(* GWASrandom.plot_drawings, gwas_random.py 332-389 *)

\* usecols of the read of the association results, line 350
usecols == {"SNP", "CHR", "p"}

\* the columns manhattan_plot reads of df_gwas before it draws, plots.py 53-56
manhattan_columns == {"p", "CHR", "bp"}

\* the association results read with usecols: no column bp
ResultTables == {[i \in DOMAIN t |-> DropColumn(t[i], "bp")] : t \in GwasTables}

\* the tables snps_annotated.csv can hold
AnnotatedCsv == UNION {UniqueAnnotRows(n) : n \in 0..MaxAnnot}

-----------------------------------------------------------------------------
(* Specification of the coordinate transformer *)

\* no call has been made: every local is unbound
Idle ==
    /\ pc = "idle"
    /\ result = "none"
    /\ exception = "none"
    /\ data = <<>>
    /\ rel_data = <<>>
    /\ pvalues = <<>>
    /\ qq_n = 0
    /\ ranks = <<>>
    /\ log_p = <<>>
    /\ exp_x = <<>>
    /\ thin = <<>>
    /\ axis_range = <<>>
    /\ passes = 0
    /\ budget = 0
    /\ conf_points = 0
    /\ qq_i = 0
    /\ mpts = <<>>
    /\ writes = <<>>
    /\ df_top_highlts = <<>>
    /\ df_bottom_highlts = <<>>
    /\ classified = <<>>
    /\ df_top = <<>>
    /\ df_bottom = <<>>
    /\ top_higlights = <<>>
    /\ bottom_higlights = <<>>
    /\ plot_data = <<>>
    /\ split_annotations = <<>>
    /\ ax_upper = <<>>
    /\ ax_lower = <<>>
    /\ df_gwas = <<>>
    /\ df_annot = <<>>
    /\ annotate = FALSE
    /\ plots_dir = <<>>
    /\ df = <<>>
    /\ snps = <<>>
    /\ genes = <<>>
    /\ highlighted_snps = <<>>
    /\ ax = <<>>
    /\ variant_context = <<>>
    /\ df_hits = <<>>
    /\ context = <<>>
    /\ hit_k = 0

CallComputeRelativePos ==
    /\ pc = "idle"
    /\ UNCHANGED <<result, exception, qq_vars, band_vars, classify_vars, miami_vars, manhattan_vars>>
    /\ \E n \in 0..MaxRows : \E t \in RowsOf(n) :
        /\ data' = t
        /\ rel_data' = compute_relative_pos(t)
    /\ pc' = "relpos_done"
    /\ UNCHANGED hits_vars

SpecCoord == Idle /\ [][CallComputeRelativePos]_vars

-----------------------------------------------------------------------------
(* Specification of qq_plot *)

\* lines 207-212: the observed values, the ranks and the expected values
QQCompute ==
    /\ pc = "idle"
    /\ \E m \in 0..MaxN : \E pv \in [1..m -> PTenths] :
        /\ pvalues' = pv
        /\ qq_n' = m
        /\ log_p' = [i \in 1..m |-> NegLog10(pv[i], 10)]
        /\ ranks' = rankdata(pv)
        /\ exp_x' = expected_values(rankdata(pv), m)
    /\ pc' = "qq_thin"
    /\ UNCHANGED <<result, exception, thin, axis_range, passes, coord_vars, band_vars, classify_vars, miami_vars, manhattan_vars>>
    /\ UNCHANGED hits_vars

\* lines 225-231 (grp is None): the rounded frame without its duplicate rows
QQThin ==
    /\ pc = "qq_thin"
    /\ thin' = drop_duplicates(rounded_frame(log_p, exp_x))
    /\ pc' = "qq_update"
    /\ UNCHANGED <<result, exception, pvalues, qq_n, ranks, log_p, exp_x,
                   axis_range, passes, coord_vars, band_vars, classify_vars, miami_vars, manhattan_vars>>
    /\ UNCHANGED hits_vars

\* lines 234-235: log_p and exp_x become the columns of thin
QQUpdate ==
    /\ pc = "qq_update"
    /\ log_p' = [i \in DOMAIN thin |-> thin[i].pvalues]
    /\ exp_x' = [i \in DOMAIN thin |-> thin[i].exp_x]
    /\ passes' = passes + 1
    /\ pc' = "qq_axis"
    /\ UNCHANGED <<result, exception, pvalues, qq_n, ranks, thin, axis_range,
                   coord_vars, band_vars, classify_vars, miami_vars, manhattan_vars>>
    /\ UNCHANGED hits_vars

\* lines 237-282: the axis range (min() of an empty array raises ValueError),
\* the figure, and the call plot_confidence_interval(n, conf_points=1500, ...)
QQAxisRange ==
    /\ pc = "qq_axis"
    /\ passes = 1
    /\ IF log_p = <<>>
       THEN /\ exception' = "ValueError"
            /\ pc' = "raised"
            /\ UNCHANGED <<axis_range, budget>>
       ELSE /\ axis_range' =
                <<SetMin({log_p[i] : i \in DOMAIN log_p} \cup {exp_x[i] : i \in DOMAIN exp_x}) - 50000,
                  SetMax({log_p[i] : i \in DOMAIN log_p} \cup {exp_x[i] : i \in DOMAIN exp_x}) + 100000>>
            /\ budget' = ConfPointsArg
            /\ pc' = "conf_enter"
            /\ UNCHANGED exception
    /\ UNCHANGED <<result, pvalues, qq_n, ranks, log_p, exp_x, thin, passes,
                   conf_points, qq_i, mpts, writes, coord_vars, classify_vars, miami_vars, manhattan_vars>>
    /\ UNCHANGED hits_vars

\* lines 263-264: the budget is capped and mpts allocated (np.zeros raises
\* ValueError on a negative dimension)
ConfEnter ==
    /\ pc = "conf_enter"
    /\ conf_points' = Min2(budget, qq_n - 1)
    /\ IF Min2(budget, qq_n - 1) < 0
       THEN /\ exception' = "ValueError"
            /\ pc' = "raised"
            /\ UNCHANGED <<qq_i, mpts, writes>>
       ELSE /\ mpts' = [r \in 1..(2 * Min2(budget, qq_n - 1)) |-> [x |-> 0, y |-> ZeroBound]]
            /\ writes' = [r \in 1..(2 * Min2(budget, qq_n - 1)) |-> 0]
            /\ qq_i' = 1
            /\ pc' = "conf_loop"
            /\ UNCHANGED exception
    /\ UNCHANGED <<result, budget, qq_vars, coord_vars, classify_vars, miami_vars, manhattan_vars>>
    /\ UNCHANGED hits_vars

\* lines 266-276: one iteration of the loop, for rank i
ConfIter ==
    /\ pc = "conf_loop"
    /\ qq_i <= conf_points
    /\ LET x == NegLog10(2 * qq_i - 1, 2 * qq_n)
           y_upper == BetaBound(1000 - ConfAlpha \div 2, qq_i, qq_n - qq_i)
           y_lower == BetaBound(ConfAlpha \div 2, qq_i, qq_n - qq_i)
           up == upper_row(conf_points, qq_i)
           lo == lower_row(conf_points, qq_i)
       IN  /\ mpts' = [[mpts EXCEPT ![up] = [x |-> x, y |-> y_upper]]
                          EXCEPT ![lo] = [x |-> x, y |-> y_lower]]
           /\ writes' = [[writes EXCEPT ![up] = @ + 1] EXCEPT ![lo] = @ + 1]
    /\ qq_i' = qq_i + 1
    /\ UNCHANGED <<pc, result, exception, budget, conf_points, qq_vars, coord_vars, classify_vars, miami_vars, manhattan_vars>>
    /\ UNCHANGED hits_vars

\* line 279: the loop is over and the polygon is filled
ConfFill ==
    /\ pc = "conf_loop"
    /\ qq_i > conf_points
    /\ pc' = "qq_scatter"
    /\ UNCHANGED <<result, exception, band_vars, qq_vars, coord_vars, classify_vars, miami_vars, manhattan_vars>>
    /\ UNCHANGED hits_vars

\* lines 284-306: the points, the y = x line, the file, return True
QQFinish ==
    /\ pc = "qq_scatter"
    /\ passes = 1
    /\ result' = "True"
    /\ pc' = "qq_done"
    /\ UNCHANGED <<exception, band_vars, qq_vars, coord_vars, classify_vars, miami_vars, manhattan_vars>>
    /\ UNCHANGED hits_vars

QQNext ==
    \/ QQCompute
    \/ QQThin
    \/ QQUpdate
    \/ QQAxisRange
    \/ ConfEnter
    \/ ConfIter
    \/ ConfFill
    \/ QQFinish

SpecQQ == Idle /\ [][QQNext]_vars

-----------------------------------------------------------------------------
(* plot_confidence_interval on its own: any n and any point budget *)

BandInit ==
    /\ pc = "conf_enter"
    /\ result = "none"
    /\ exception = "none"
    /\ data = <<>>
    /\ rel_data = <<>>
    /\ pvalues = <<>>
    /\ qq_n \in 0..MaxBandN
    /\ ranks = <<>>
    /\ log_p = <<>>
    /\ exp_x = <<>>
    /\ thin = <<>>
    /\ axis_range = <<>>
    /\ passes = 0
    /\ budget \in 1..MaxBudget
    /\ conf_points = 0
    /\ qq_i = 0
    /\ mpts = <<>>
    /\ writes = <<>>
    /\ df_top_highlts = <<>>
    /\ df_bottom_highlts = <<>>
    /\ classified = <<>>
    /\ df_top = <<>>
    /\ df_bottom = <<>>
    /\ top_higlights = <<>>
    /\ bottom_higlights = <<>>
    /\ plot_data = <<>>
    /\ split_annotations = <<>>
    /\ ax_upper = <<>>
    /\ ax_lower = <<>>
    /\ df_gwas = <<>>
    /\ df_annot = <<>>
    /\ annotate = FALSE
    /\ plots_dir = <<>>
    /\ df = <<>>
    /\ snps = <<>>
    /\ genes = <<>>
    /\ highlighted_snps = <<>>
    /\ ax = <<>>
    /\ variant_context = <<>>
    /\ df_hits = <<>>
    /\ context = <<>>
    /\ hit_k = 0

BandNext ==
    \/ ConfEnter
    \/ ConfIter
    \/ ConfFill

SpecBand == BandInit /\ [][BandNext]_vars

-----------------------------------------------------------------------------
(* The thinning step on its own: any two arrays, and its own output again *)

ThinInit ==
    /\ pc = "qq_thin"
    /\ result = "none"
    /\ exception = "none"
    /\ data = <<>>
    /\ rel_data = <<>>
    /\ pvalues = <<>>
    /\ qq_n = 0
    /\ ranks = <<>>
    /\ \E m \in 0..MaxThin :
        /\ log_p \in [1..m -> ObservedSamples]
        /\ exp_x \in [1..m -> ExpectedSamples]
    /\ thin = <<>>
    /\ axis_range = <<>>
    /\ passes = 0
    /\ budget = 0
    /\ conf_points = 0
    /\ qq_i = 0
    /\ mpts = <<>>
    /\ writes = <<>>
    /\ df_top_highlts = <<>>
    /\ df_bottom_highlts = <<>>
    /\ classified = <<>>
    /\ df_top = <<>>
    /\ df_bottom = <<>>
    /\ top_higlights = <<>>
    /\ bottom_higlights = <<>>
    /\ plot_data = <<>>
    /\ split_annotations = <<>>
    /\ ax_upper = <<>>
    /\ ax_lower = <<>>
    /\ df_gwas = <<>>
    /\ df_annot = <<>>
    /\ annotate = FALSE
    /\ plots_dir = <<>>
    /\ df = <<>>
    /\ snps = <<>>
    /\ genes = <<>>
    /\ highlighted_snps = <<>>
    /\ ax = <<>>
    /\ variant_context = <<>>
    /\ df_hits = <<>>
    /\ context = <<>>
    /\ hit_k = 0

\* the arrays the step returned are handed to it again
Rethin ==
    /\ pc = "qq_axis"
    /\ passes < MaxPasses
    /\ pc' = "qq_thin"
    /\ UNCHANGED <<result, exception, qq_vars, band_vars, coord_vars, classify_vars, miami_vars, manhattan_vars>>
    /\ UNCHANGED hits_vars

ThinNext ==
    \/ QQThin
    \/ QQUpdate
    \/ Rethin

SpecThin == ThinInit /\ [][ThinNext]_vars

-----------------------------------------------------------------------------
(* Specification of classify_annotations *)

CallClassifyAnnotations ==
    /\ pc = "idle"
    /\ \E n \in 0..MaxAnnot, m \in 0..MaxAnnot :
       \E top \in AnnotRows(n), bottom \in AnnotRows(m) :
        /\ df_top_highlts' = top
        /\ df_bottom_highlts' = bottom
        /\ classified' = classify_annotations(top, bottom)
    /\ pc' = "classify_done"
    /\ UNCHANGED <<result, exception, coord_vars, qq_vars, band_vars, miami_vars, manhattan_vars>>
    /\ UNCHANGED hits_vars

SpecClassify == Idle /\ [][CallClassifyAnnotations]_vars

-----------------------------------------------------------------------------
(* Specification of miami_plot *)

\* the non-empty association tables over the variants
AssocTables(pv) == {AssocTable(S, pv) : S \in (SUBSET Variants) \ {{}}}

\* lines 343-395: the arguments are bound, the data laid out (prepare_data
\* writes the split_by column into the caller's two tables) and scattered
MiamiProcess ==
    /\ pc = "idle"
    /\ \E top \in AssocTables(1), bottom \in AssocTables(5) :
        /\ df_top' = set_column_split_by(top, "top")
        /\ df_bottom' = set_column_split_by(bottom, "bottom")
        /\ plot_data' = process_miami_data(top, bottom)
    /\ top_higlights' \in OptionalAnnot
    /\ bottom_higlights' \in OptionalAnnot
    /\ pc' = "miami_scatter"
    /\ UNCHANGED <<result, exception, split_annotations, ax_upper, ax_lower,
                   coord_vars, qq_vars, band_vars, classify_vars, manhattan_vars>>
    /\ UNCHANGED hits_vars

\* lines 359-395: the two panels
MiamiScatter ==
    /\ pc = "miami_scatter"
    /\ ax_upper' = NewAxes(plot_data.upper)
    /\ ax_lower' = NewAxes(plot_data.lower)
    /\ pc' = "miami_annotate"
    /\ UNCHANGED <<result, exception, df_top, df_bottom, top_higlights,
                   bottom_higlights, plot_data, split_annotations,
                   coord_vars, qq_vars, band_vars, classify_vars, manhattan_vars>>
    /\ UNCHANGED hits_vars

\* lines 397-402: only the top highlights are given
MiamiTopOnly ==
    /\ pc = "miami_annotate"
    /\ top_higlights # None /\ bottom_higlights = None
    /\ top_higlights' = Some(set_column_type(top_higlights[1], "top_in_bottom"))
    /\ ax_upper' = annotate_miami(ax_upper, plot_data.upper,
                        set_column_type(top_higlights[1], "top_in_bottom"), {"top_in_bottom"})
    /\ ax_lower' = annotate_miami(ax_lower, plot_data.lower,
                        set_column_type(top_higlights[1], "top_in_bottom"), {"top_in_bottom"})
    /\ pc' = "miami_finish"
    /\ UNCHANGED <<result, exception, df_top, df_bottom, bottom_higlights,
                   plot_data, split_annotations,
                   coord_vars, qq_vars, band_vars, classify_vars, manhattan_vars>>
    /\ UNCHANGED hits_vars

\* lines 404-409: only the bottom highlights are given
MiamiBottomOnly ==
    /\ pc = "miami_annotate"
    /\ bottom_higlights # None /\ top_higlights = None
    /\ bottom_higlights' = Some(set_column_type(bottom_higlights[1], "bottom_in_top"))
    /\ ax_upper' = annotate_miami(ax_upper, plot_data.upper,
                        set_column_type(bottom_higlights[1], "bottom_in_top"), {"bottom_in_top"})
    /\ ax_lower' = annotate_miami(ax_lower, plot_data.lower,
                        set_column_type(bottom_higlights[1], "bottom_in_top"), {"bottom_in_top"})
    /\ pc' = "miami_finish"
    /\ UNCHANGED <<result, exception, df_top, df_bottom, top_higlights,
                   plot_data, split_annotations,
                   coord_vars, qq_vars, band_vars, classify_vars, manhattan_vars>>
    /\ UNCHANGED hits_vars

\* line 413: both highlight tables are given and are classified
MiamiClassify ==
    /\ pc = "miami_annotate"
    /\ top_higlights # None /\ bottom_higlights # None
    /\ split_annotations' = classify_annotations(top_higlights[1], bottom_higlights[1])
    /\ pc' = "miami_annotate_both"
    /\ UNCHANGED <<result, exception, df_top, df_bottom, top_higlights,
                   bottom_higlights, plot_data, ax_upper, ax_lower,
                   coord_vars, qq_vars, band_vars, classify_vars, manhattan_vars>>
    /\ UNCHANGED hits_vars

\* lines 415-416: the classified highlights are drawn on both panels
MiamiAnnotateBoth ==
    /\ pc = "miami_annotate_both"
    /\ ax_upper' = annotate_miami(ax_upper, plot_data.upper, split_annotations,
                                  upper_to_annotate)
    /\ ax_lower' = annotate_miami(ax_lower, plot_data.lower, split_annotations,
                                  lower_to_annotate)
    /\ pc' = "miami_finish"
    /\ UNCHANGED <<result, exception, df_top, df_bottom, top_higlights,
                   bottom_higlights, plot_data, split_annotations,
                   coord_vars, qq_vars, band_vars, classify_vars, manhattan_vars>>
    /\ UNCHANGED hits_vars

\* no highlight table is given: none of the three branches is taken
MiamiNoHighlights ==
    /\ pc = "miami_annotate"
    /\ top_higlights = None /\ bottom_higlights = None
    /\ pc' = "miami_finish"
    /\ UNCHANGED <<result, exception, miami_vars,
                   coord_vars, qq_vars, band_vars, classify_vars, manhattan_vars>>
    /\ UNCHANGED hits_vars

\* lines 418-426: the labels of the axes, the figure is saved, True returned
MiamiFinish ==
    /\ pc = "miami_finish"
    /\ result' = "True"
    /\ pc' = "miami_done"
    /\ UNCHANGED <<exception, miami_vars, coord_vars, qq_vars, band_vars, classify_vars, manhattan_vars>>
    /\ UNCHANGED hits_vars

MiamiNext ==
    \/ MiamiProcess
    \/ MiamiScatter
    \/ MiamiTopOnly
    \/ MiamiBottomOnly
    \/ MiamiClassify
    \/ MiamiAnnotateBoth
    \/ MiamiNoHighlights
    \/ MiamiFinish

SpecMiami == Idle /\ [][MiamiNext]_vars

-----------------------------------------------------------------------------
(* Specification of manhattan_plot *)

\* lines 30-60: the arguments are bound and df prepared
ManhattanPrepare ==
    /\ pc = "idle"
    /\ \E t \in GwasTables :
        /\ df_gwas' = t
        /\ df' = prepare_df(t)
    /\ df_annot' \in OptionalAnnot
    /\ annotate' \in BOOLEAN
    /\ plots_dir' \in {None, Some("plots")}
    /\ pc' = "manhattan_subset"
    /\ UNCHANGED <<result, exception, snps, genes, highlighted_snps, ax,
                   coord_vars, qq_vars, band_vars, classify_vars, miami_vars>>
    /\ UNCHANGED hits_vars

\* lines 63-66: snps, genes and highlighted_snps are bound only when an
\* annotation table is given
ManhattanSubset ==
    /\ pc = "manhattan_subset"
    /\ IF df_annot # None
       THEN /\ snps' = Some([i \in DOMAIN df_annot[1] |-> df_annot[1][i].SNP])
            /\ genes' = Some([i \in DOMAIN df_annot[1] |-> df_annot[1][i].GENE])
            /\ highlighted_snps' =
                    Some(rows_with_snp_in(df, [i \in DOMAIN df_annot[1] |-> df_annot[1][i].SNP]))
       ELSE UNCHANGED <<snps, genes, highlighted_snps>>
    /\ pc' = "manhattan_draw"
    /\ UNCHANGED <<result, exception, df_gwas, df_annot, annotate, plots_dir, df, ax,
                   coord_vars, qq_vars, band_vars, classify_vars, miami_vars>>
    /\ UNCHANGED hits_vars

\* lines 69-75: the figure and the chromosome groups
ManhattanDraw ==
    /\ pc = "manhattan_draw"
    /\ ax' = IF df_annot # None THEN draw_chrom_groups(df, highlighted_snps)
             ELSE draw_chrom_groups(df, None)
    /\ pc' = "manhattan_annotate"
    /\ UNCHANGED <<result, exception, df_gwas, df_annot, annotate, plots_dir, df,
                   snps, genes, highlighted_snps,
                   coord_vars, qq_vars, band_vars, classify_vars, miami_vars>>
    /\ UNCHANGED hits_vars

\* lines 77-79: with annotate set, the arguments of the call are read (an
\* unbound highlighted_snps raises UnboundLocalError) and bound to the
\* parameters of annotate_plot (a missing argument raises TypeError)
ManhattanAnnotate ==
    /\ pc = "manhattan_annotate"
    /\ IF ~annotate
       THEN /\ pc' = "manhattan_limits"
            /\ UNCHANGED <<exception, ax>>
       ELSE IF highlighted_snps = Unbound
       THEN /\ exception' = "UnboundLocalError"
            /\ pc' = "raised"
            /\ UNCHANGED ax
       ELSE IF Len(annotate_plot_args) # Len(annotate_plot_params)
       THEN /\ exception' = "TypeError"
            /\ pc' = "raised"
            /\ UNCHANGED ax
       ELSE /\ ax' = annotate_plot(ax, highlighted_snps[1], snps[1], genes[1])
            /\ pc' = "manhattan_limits"
            /\ UNCHANGED exception
    /\ UNCHANGED <<result, df_gwas, df_annot, annotate, plots_dir, df,
                   snps, genes, highlighted_snps,
                   coord_vars, qq_vars, band_vars, classify_vars, miami_vars>>
    /\ UNCHANGED hits_vars

\* lines 82-103: the limits (max() of an empty column raises ValueError),
\* the threshold line, the labels, and the return value
ManhattanFinish ==
    /\ pc = "manhattan_limits"
    /\ IF df = <<>>
       THEN /\ exception' = "ValueError"
            /\ pc' = "raised"
            /\ UNCHANGED <<result, ax>>
       ELSE /\ ax' = [xlim |-> <<0, Len(df)>>,
                      ylim |-> <<0, SetMax({df[i].log10P : i \in DOMAIN df}) + 100000>>,
                      hline |-> GenomeLine] @@ ax
            /\ result' = IF plots_dir = None THEN "Axes" ELSE "True"
            /\ pc' = "manhattan_done"
            /\ UNCHANGED exception
    /\ UNCHANGED <<df_gwas, df_annot, annotate, plots_dir, df,
                   snps, genes, highlighted_snps,
                   coord_vars, qq_vars, band_vars, classify_vars, miami_vars>>
    /\ UNCHANGED hits_vars

ManhattanNext ==
    \/ ManhattanPrepare
    \/ ManhattanSubset
    \/ ManhattanDraw
    \/ ManhattanAnnotate
    \/ ManhattanFinish

SpecManhattan == Idle /\ [][ManhattanNext]_vars

-----------------------------------------------------------------------------
(* Specification of GWASrandom.annotate_top_hits *)

\* lines 281-295: the file of hits is read when it exists; when it does not,
\* line 293 builds a FileExistsError without raising it and line 295 reads
\* the unbound df_hits
AnnotateLoad ==
    /\ pc = "idle"
    /\ \E file_exists \in BOOLEAN, n \in 0..MaxHits :
        \E rows \in HitRows(n), lookups \in [1..n -> LookupResults] :
            IF file_exists
            THEN /\ df_hits' = rows
                 /\ variant_context' = lookups
                 /\ pc' = "annotate_loop"
                 /\ UNCHANGED exception
            ELSE /\ exception' = "UnboundLocalError"
                 /\ pc' = "raised"
                 /\ UNCHANGED <<df_hits, variant_context>>
    /\ UNCHANGED <<result, context, hit_k, coord_vars, qq_vars, band_vars,
                   classify_vars, miami_vars, manhattan_vars>>

\* lines 297-308: one iteration of the loop, for row k
AnnotateHit ==
    /\ pc = "annotate_loop"
    /\ hit_k < Len(df_hits)
    /\ context' = IF variant_context[hit_k + 1] = None THEN NA
                  ELSE variant_context[hit_k + 1][1]
    /\ df_hits' = set_gene(df_hits, hit_k + 1, element_zero(context'))
    /\ hit_k' = hit_k + 1
    /\ UNCHANGED <<pc, result, exception, variant_context, coord_vars, qq_vars,
                   band_vars, classify_vars, miami_vars, manhattan_vars>>

\* lines 310-330: the columns SNP and GENE are kept (KeyError when no
\* iteration created GENE), the table saved and pass=True reported
AnnotateSave ==
    /\ pc = "annotate_loop"
    /\ hit_k = Len(df_hits)
    /\ IF df_hits = <<>>
       THEN /\ exception' = "KeyError"
            /\ pc' = "raised"
            /\ UNCHANGED <<result, df_hits>>
       ELSE /\ df_hits' = [i \in DOMAIN df_hits |->
                                [SNP |-> df_hits[i].SNP, GENE |-> df_hits[i].GENE]]
            /\ result' = "True"
            /\ pc' = "annotate_done"
            /\ UNCHANGED exception
    /\ UNCHANGED <<variant_context, context, hit_k, coord_vars, qq_vars,
                   band_vars, classify_vars, miami_vars, manhattan_vars>>

AnnotateNext ==
    \/ AnnotateLoad
    \/ AnnotateHit
    \/ AnnotateSave

SpecAnnotate == Idle /\ [][AnnotateNext]_vars

-----------------------------------------------------------------------------
(* Specification of GWASrandom.plot_drawings *)

\* lines 338-351: the settings and the association results are read
DrawingsLoad ==
    /\ pc = "idle"
    /\ annotate' \in BOOLEAN
    /\ df_gwas' \in ResultTables
    /\ plots_dir' = Some("plots")
    /\ pc' = "drawings_manhattan"
    /\ UNCHANGED <<result, exception, df_annot, df, snps, genes, highlighted_snps, ax,
                   coord_vars, qq_vars, band_vars, classify_vars, miami_vars, hits_vars>>

\* lines 354-369 and plots.py 52-56: with annotate set the annotation file
\* is read and manhattan_plot called, which sorts df by CHR and bp (KeyError
\* for a column the table lacks); with annotate unset the arguments of the
\* call read df_annot, which no assignment has bound (UnboundLocalError).
\* Lines 372-389 follow the return of manhattan_plot.
DrawingsManhattan ==
    /\ pc = "drawings_manhattan"
    /\ IF annotate
       THEN /\ \E t \in AnnotatedCsv : df_annot' = Some(t)
            /\ IF manhattan_columns \subseteq usecols
               THEN /\ df' = prepare_df(df_gwas)
                    /\ pc' = "manhattan_subset"
                    /\ UNCHANGED exception
               ELSE /\ exception' = "KeyError"
                    /\ pc' = "raised"
                    /\ UNCHANGED df
       ELSE /\ UNCHANGED df_annot
            /\ IF df_annot = Unbound
               THEN /\ exception' = "UnboundLocalError"
                    /\ pc' = "raised"
                    /\ UNCHANGED df
               ELSE /\ df' = prepare_df(df_gwas)
                    /\ pc' = "manhattan_subset"
                    /\ UNCHANGED exception
    /\ UNCHANGED <<result, df_gwas, annotate, plots_dir, snps, genes, highlighted_snps, ax,
                   coord_vars, qq_vars, band_vars, classify_vars, miami_vars, hits_vars>>

DrawingsNext ==
    \/ DrawingsLoad
    \/ DrawingsManhattan

SpecDrawings == Idle /\ [][DrawingsNext]_vars

-----------------------------------------------------------------------------
(* Either plotting call with annotations: manhattan_plot or miami_plot *)

PlotsNext ==
    \/ ManhattanNext
    \/ MiamiNext

SpecPlots == Idle /\ [][PlotsNext]_vars

-----------------------------------------------------------------------------
(* Claims about the coordinate transformer *)

\* the sum of f over a finite set of integers
RECURSIVE SumOver(_, _)
SumOver(S, f) ==
    IF S = {} THEN 0
    ELSE LET x == SetMin(S) IN f[x] + SumOver(S \ {x}, f)

\* the largest position the input table holds on chromosome c
MaxPosOn(c) == SetMax({data[i].POS : i \in {j \in DOMAIN data : data[j].CHR = c}})

\* the sum of the largest positions of the chromosomes of the input before c
OffsetBefore(c) ==
    LET earlier == {data[i].CHR : i \in DOMAIN data} \cap (1..(c - 1))
    IN  SumOver(earlier, [x \in earlier |-> MaxPosOn(x)])

\* how many rows of table t have chromosome c and position p
CountRows(t, c, p) == Cardinality({i \in DOMAIN t : t[i].CHR = c /\ t[i].POS = p})

\* the scenario of the specification: CHR=[1,1,2,2], POS=[100,200,50,300]
Scenario ==
    <<[CHR |-> 1, POS |-> 100, p |-> 5], [CHR |-> 1, POS |-> 200, p |-> 5],
      [CHR |-> 2, POS |-> 50, p |-> 5], [CHR |-> 2, POS |-> 300, p |-> 5]>>

\* the relative positions compute_relative_pos gives the scenario
ScenarioRelPos == [i \in 1..4 |-> compute_relative_pos(Scenario)[i].rel_pos]

\* C1: every record of the input is in the output, with relative position =
\* position + the sum of the maximum positions of the chromosomes with a
\* smaller id; the table CHR=[1,1,2,2], POS=[100,200,50,300] gives
\* [100,200,250,500].
C1_RelativePosition ==
    /\ pc = "relpos_done" =>
        /\ Len(rel_data) = Len(data)
        /\ \A c \in Chromosomes, p \in Positions :
                CountRows(rel_data, c, p) = CountRows(data, c, p)
        /\ \A i \in DOMAIN rel_data :
                rel_data[i].rel_pos = rel_data[i].POS + OffsetBefore(rel_data[i].CHR)
    /\ ScenarioRelPos = <<100, 200, 250, 500>>

\* three chromosomes have been laid out: the third one's records are offset
\* by the lengths of both chromosomes before it
C1_Witness ==
    /\ pc = "relpos_done"
    /\ {data[i].CHR : i \in DOMAIN data} = {1, 2, 3}
    /\ \E i \in DOMAIN rel_data :
        /\ rel_data[i].CHR = 3
        /\ rel_data[i].rel_pos = rel_data[i].POS + MaxPosOn(1) + MaxPosOn(2)
        /\ MaxPosOn(1) > 0
        /\ MaxPosOn(2) > 0

\* C2 as stated: every relative position is non-negative and strictly greater
\* than that of every record on an earlier chromosome, position 0 included.
C2_StrictlyGreater ==
    pc = "relpos_done" =>
        \A i, j \in DOMAIN rel_data :
            /\ rel_data[i].rel_pos >= 0
            /\ (rel_data[i].CHR < rel_data[j].CHR
                    => rel_data[j].rel_pos > rel_data[i].rel_pos)

\* C2 amended: every relative position is non-negative and at least that of
\* every record on an earlier chromosome, and strictly greater when the
\* later record's own position is at least 1.
C2_NonDecreasing ==
    pc = "relpos_done" =>
        \A i, j \in DOMAIN rel_data :
            /\ rel_data[i].rel_pos >= 0
            /\ (rel_data[i].CHR < rel_data[j].CHR
                    => /\ rel_data[j].rel_pos >= rel_data[i].rel_pos
                       /\ (rel_data[j].POS >= 1
                              => rel_data[j].rel_pos > rel_data[i].rel_pos))

\* a record at position 0 of a later chromosome lands on the relative
\* position of the last record of the chromosome before it
C2_Witness ==
    /\ pc = "relpos_done"
    /\ \E i, j \in DOMAIN rel_data :
        /\ rel_data[i].CHR < rel_data[j].CHR
        /\ rel_data[j].POS = 0
        /\ rel_data[i].POS > 0
        /\ rel_data[j].rel_pos = rel_data[i].rel_pos

-----------------------------------------------------------------------------
(* Claims about the QQ plot *)

\* C5: every bound written into the band is a Beta quantile with first shape
\* parameter the rank i and second shape parameter n - i + 1.
C5_SecondShape ==
    \A r \in DOMAIN mpts :
        writes[r] > 0 => mpts[r].y.b = qq_n - mpts[r].y.a + 1

\* C6: for n > 1 and budget >= 1 the finished polygon has 2k rows,
\* k = min(budget, n-1); rows 1..k are the upper bounds of ranks 1..k, rows
\* k+1..2k the lower bounds of ranks k..1, and each row was assigned once.
C6_BandPolygon ==
    (pc = "qq_scatter" /\ qq_n > 1 /\ budget >= 1) =>
        LET k == IF budget <= qq_n - 1 THEN budget ELSE qq_n - 1
        IN  /\ Len(mpts) = 2 * k
            /\ \A r \in 1..k :
                /\ mpts[r].x = NegLog10(2 * r - 1, 2 * qq_n)
                /\ mpts[r].y.q = 975
                /\ mpts[r].y.a = r
                /\ mpts[k + r].x = NegLog10(2 * (k + 1 - r) - 1, 2 * qq_n)
                /\ mpts[k + r].y.q = 25
                /\ mpts[k + r].y.a = k + 1 - r
            /\ \A r \in 1..(2 * k) : writes[r] = 1

\* a band cut by the budget (2 < n - 1) has been completed
C6_Witness ==
    /\ pc = "qq_scatter"
    /\ qq_n = 5
    /\ budget = 2
    /\ Len(mpts) = 4
    /\ mpts[3].y.a = 2

\* row k of frame f is a copy of an earlier row
IsRepeat(f, k) == \E j \in 1..(k - 1) : f[j] = f[k]

\* the index of the first row of frame f equal to row v
FirstIndex(f, v) == SetMin({i \in DOMAIN f : f[i] = v})

\* C7: the thinned frame holds each rounded (observed, expected) pair once,
\* in the order of the pairs' first occurrences, is never longer than the
\* input, and thinning an already-thinned pair of arrays changes nothing.
C7_Thinning ==
    pc = "qq_update" =>
        LET f == [i \in DOMAIN log_p |->
                    [pvalues |-> np_round3(log_p[i]), exp_x |-> np_round3(exp_x[i])]]
        IN  /\ Len(thin) <= Len(log_p)
            /\ {thin[k] : k \in DOMAIN thin} = {f[i] : i \in DOMAIN f}
            /\ \A k \in DOMAIN thin : ~IsRepeat(thin, k)
            /\ \A k, l \in DOMAIN thin :
                    k < l => FirstIndex(f, thin[k]) < FirstIndex(f, thin[l])
            /\ passes >= 1 =>
                    /\ [k \in DOMAIN thin |-> thin[k].pvalues] = log_p
                    /\ [k \in DOMAIN thin |-> thin[k].exp_x] = exp_x

\* the thinning step has run on its own output, which holds several points
C7_Witness ==
    /\ pc = "qq_update"
    /\ passes = 1
    /\ Len(thin) >= 2
    /\ Len(thin) = Len(log_p)

\* C8: the ranks are a permutation of 1..n, a smaller p-value has the smaller
\* rank, equal p-values are ranked in their original order, and the
\* expected value of each point is -log10((rank - 0.5)/n).
C8_OrdinalRanks ==
    pc \in {"qq_thin", "qq_update"} =>
        /\ Len(ranks) = qq_n
        /\ {ranks[i] : i \in DOMAIN ranks} = 1..qq_n
        /\ \A i, j \in 1..qq_n :
            /\ pvalues[i] < pvalues[j] => ranks[i] < ranks[j]
            /\ (pvalues[i] = pvalues[j] /\ i < j) => ranks[i] < ranks[j]
        /\ passes = 0 =>
            \A i \in 1..qq_n :
                exp_x[i] = Log10Tab[2 * qq_n] - Log10Tab[2 * ranks[i] - 1]

\* p-values out of order and with a tie have been ranked
C8_Witness ==
    /\ pc = "qq_thin"
    /\ qq_n >= 3
    /\ \E i, j \in 1..qq_n : i < j /\ pvalues[i] = pvalues[j]
    /\ \E i, j \in 1..qq_n : i < j /\ pvalues[i] > pvalues[j] /\ ranks[i] > ranks[j]

\* qq_plot has returned or raised
QQOver == pc \in {"qq_done", "raised"}

\* C11: qq_plot given n <= 1 p-values (n = 0 or n = 1) raises nothing,
\* returns True and leaves an empty band.
C11_DegenerateQQ ==
    (QQOver /\ qq_n <= 1) =>
        /\ exception = "none"
        /\ result = "True"
        /\ mpts = <<>>

-----------------------------------------------------------------------------
(* Claims about the variant classifier *)

\* the ids of the rows of the classified table tagged ty
IdsOfType(ty) == {classified[i].SNP : i \in {j \in DOMAIN classified : classified[j].type = ty}}

\* the number of rows of the classified table tagged ty
RowsOfType(ty) == Cardinality({j \in DOMAIN classified : classified[j].type = ty})

AllInputIds == SnpSet(df_top_highlts) \cup SnpSet(df_bottom_highlts)

\* no id occurs in two rows of table t
NoRepeatedId(t) == \A i, j \in DOMAIN t : t[i].SNP = t[j].SNP => i = j

\* C3 as stated: for any two tables, repeated ids included, the three id-sets
\* are pairwise disjoint and the rows of the three categories number the
\* distinct ids of the two inputs.
C3_PartitionAnyTables ==
    pc = "classify_done" =>
        /\ IdsOfType("on_both") \cap IdsOfType("top_in_bottom") = {}
        /\ IdsOfType("on_both") \cap IdsOfType("bottom_in_top") = {}
        /\ IdsOfType("top_in_bottom") \cap IdsOfType("bottom_in_top") = {}
        /\ RowsOfType("on_both") + RowsOfType("top_in_bottom") + RowsOfType("bottom_in_top")
                = Cardinality(AllInputIds)

\* C3 amended: for any two tables the three id-sets are pairwise disjoint
\* and together are the ids of the two inputs; the on_both rows number the
\* pairs of a top row and a bottom row with the same id, the top-only and
\* bottom-only rows number the rows of their table whose id the other table
\* lacks; the rows of the three categories number the distinct ids exactly
\* when no id is repeated within either table.
C3_Partition ==
    pc = "classify_done" =>
        /\ IdsOfType("on_both") \cap IdsOfType("top_in_bottom") = {}
        /\ IdsOfType("on_both") \cap IdsOfType("bottom_in_top") = {}
        /\ IdsOfType("top_in_bottom") \cap IdsOfType("bottom_in_top") = {}
        /\ IdsOfType("on_both") \cup IdsOfType("top_in_bottom") \cup IdsOfType("bottom_in_top")
                = AllInputIds
        /\ IdsOfType("on_both") = SnpSet(df_top_highlts) \cap SnpSet(df_bottom_highlts)
        /\ RowsOfType("on_both") =
                Cardinality({ij \in (DOMAIN df_top_highlts) \X (DOMAIN df_bottom_highlts) :
                                df_top_highlts[ij[1]].SNP = df_bottom_highlts[ij[2]].SNP})
        /\ RowsOfType("top_in_bottom") =
                Cardinality({i \in DOMAIN df_top_highlts :
                                df_top_highlts[i].SNP \notin SnpSet(df_bottom_highlts)})
        /\ RowsOfType("bottom_in_top") =
                Cardinality({j \in DOMAIN df_bottom_highlts :
                                df_bottom_highlts[j].SNP \notin SnpSet(df_top_highlts)})
        /\ (NoRepeatedId(df_top_highlts) /\ NoRepeatedId(df_bottom_highlts)) <=>
                RowsOfType("on_both") + RowsOfType("top_in_bottom") + RowsOfType("bottom_in_top")
                    = Cardinality(AllInputIds)

\* two tables without repeated ids have been split into three non-empty
\* categories
C3_Witness ==
    /\ pc = "classify_done"
    /\ NoRepeatedId(df_top_highlts)
    /\ NoRepeatedId(df_bottom_highlts)
    /\ IdsOfType("on_both") # {}
    /\ IdsOfType("top_in_bottom") # {}
    /\ IdsOfType("bottom_in_top") # {}

-----------------------------------------------------------------------------
(* Claims about the Miami plot *)

\* variant s of the panel's points carries a text label on the panel
Labelled(panel, s) ==
    \E k \in DOMAIN panel.texts, i \in DOMAIN panel.points :
        /\ panel.points[i].SNP = s
        /\ panel.texts[k].x = panel.points[i].rel_pos
        /\ panel.texts[k].y = panel.points[i].log10p

\* the ids split_annotations tags ty
SplitIds(ty) ==
    {split_annotations[i].SNP :
        i \in {j \in DOMAIN split_annotations : split_annotations[j].type = ty}}

\* miami_plot has run with both highlight tables
BothHighlighted ==
    /\ pc = "miami_done"
    /\ top_higlights # None
    /\ bottom_higlights # None

\* C4: with both highlight tables, a variant plotted on the upper panel is
\* labelled there exactly when it is on_both or top-exclusive, and a variant
\* plotted on the lower panel is labelled there exactly when it is on_both
\* or bottom-exclusive.
C4_PanelAnnotations ==
    BothHighlighted =>
        /\ \A s \in SnpSet(ax_upper.points) :
            Labelled(ax_upper, s) <=> s \in SplitIds("on_both") \cup SplitIds("top_in_bottom")
        /\ \A s \in SnpSet(ax_lower.points) :
            Labelled(ax_lower, s) <=> s \in SplitIds("on_both") \cup SplitIds("bottom_in_top")

-----------------------------------------------------------------------------
(* Claims about the Manhattan plot *)

\* manhattan_plot has returned or raised
ManhattanOver == pc \in {"manhattan_done", "raised"}

\* C9: manhattan_plot given a non-empty association table, an annotation
\* table, an output directory and annotate=True raises nothing, returns
\* True and has labelled every highlighted variant.
C9_AnnotatedManhattan ==
    (ManhattanOver /\ annotate /\ df_annot # None /\ df_gwas # <<>> /\ plots_dir # None) =>
        /\ exception = "none"
        /\ result = "True"
        /\ Len(ax.texts) = Len(highlighted_snps[1])

\* C10: manhattan_plot given a non-empty association table, no annotation
\* table, an output directory and annotate=True raises nothing and returns
\* True, with no label drawn.
C10_MissingAnnotation ==
    (ManhattanOver /\ annotate /\ df_annot = None /\ df_gwas # <<>> /\ plots_dir # None) =>
        /\ exception = "none"
        /\ result = "True"
        /\ ax.texts = <<>>

-----------------------------------------------------------------------------
(* Claims about annotation ids the association table lacks *)

\* the ids of an optional annotation table
OptionalIds(annotation) == IF annotation = None THEN {} ELSE SnpSet(annotation[1])

\* manhattan_plot has drawn the chromosome groups of a call with an
\* annotation table
ManhattanDrawn ==
    /\ pc \in {"manhattan_annotate", "manhattan_limits", "manhattan_done"}
    /\ df_annot # None

\* miami_plot has drawn the annotations
MiamiDrawn == pc \in {"miami_finish", "miami_done"}

\* C12: the highlighted set of manhattan_plot and of each panel of
\* miami_plot holds exactly the annotation ids the association table has, an
\* id the association table lacks raises nothing, and the base points are
\* one per association record whatever the annotation table is.
C12_UnresolvedDropped ==
    /\ ManhattanDrawn =>
        /\ exception = "none"
        /\ SnpSet(highlighted_snps[1]) = SnpSet(df_annot[1]) \cap SnpSet(df_gwas)
        /\ SnpSet(ax.highlighted) \subseteq SnpSet(df_gwas)
        /\ Len(ax.points) = Len(df_gwas)
        /\ \A i \in DOMAIN df_gwas :
            \E k \in DOMAIN ax.points :
                /\ df[k].SNP = df_gwas[i].SNP
                /\ ax.points[k].x = k - 1
                /\ ax.points[k].y = NegLog10(df_gwas[i].p, 10)
    /\ MiamiDrawn =>
        /\ exception = "none"
        /\ SnpSet(ax_upper.highlighted) =
                (OptionalIds(top_higlights) \cup OptionalIds(bottom_higlights)) \cap SnpSet(df_top)
        /\ SnpSet(ax_lower.highlighted) =
                (OptionalIds(top_higlights) \cup OptionalIds(bottom_higlights)) \cap SnpSet(df_bottom)
        /\ ax_upper.points = plot_data.upper
        /\ ax_lower.points = plot_data.lower
        /\ Len(ax_upper.points) = Len(df_top)
        /\ Len(ax_lower.points) = Len(df_bottom)
        /\ \A i \in DOMAIN df_top :
            \E k \in DOMAIN ax_upper.points :
                /\ ax_upper.points[k].SNP = df_top[i].SNP
                /\ ax_upper.points[k].log10p = NegLog10(df_top[i].p, 10)
    /\ (pc = "raised" /\ exception # "ValueError") => annotate

\* miami_plot has returned from a call whose two highlight tables hold an id
\* neither association table has, next to ids that are highlighted
C12_Witness ==
    /\ pc = "miami_done"
    /\ \E s \in OptionalIds(top_higlights) : s \notin SnpSet(df_top) \cup SnpSet(df_bottom)
    /\ \E s \in OptionalIds(bottom_higlights) : s \notin SnpSet(df_top) \cup SnpSet(df_bottom)
    /\ ax_upper.highlighted # <<>>
    /\ ax_lower.highlighted # <<>>

\* manhattan_plot has returned from a call whose annotation table holds an
\* id the association table lacks, next to an id that is highlighted
ManhattanUnresolvedReached ==
    /\ pc = "manhattan_done"
    /\ df_annot # None
    /\ \E s \in SnpSet(df_annot[1]) : s \notin SnpSet(df_gwas)
    /\ ax.highlighted # <<>>

-----------------------------------------------------------------------------
(* Claims about the caller's tables *)

\* every row of table t has exactly the columns cols
HasColumns(t, cols) == \A i \in DOMAIN t : DOMAIN t[i] = cols

\* C13: after miami_plot has returned, the caller's two association tables
\* still have the columns SNP, CHR, POS, p they were passed with and the
\* caller's highlight tables the columns SNP, GENE.
C13_InputsUnchanged ==
    pc = "miami_done" =>
        /\ HasColumns(df_top, {"SNP", "CHR", "POS", "p"})
        /\ HasColumns(df_bottom, {"SNP", "CHR", "POS", "p"})
        /\ top_higlights # None => HasColumns(top_higlights[1], {"SNP", "GENE"})
        /\ bottom_higlights # None => HasColumns(bottom_higlights[1], {"SNP", "GENE"})

-----------------------------------------------------------------------------
(* Claims about the joint layout of the Miami panels *)

\* the largest position the two association tables hold on chromosome c
JointMaxPosOn(c) ==
    SetMax({df_top[i].POS : i \in {j \in DOMAIN df_top : df_top[j].CHR = c}}
           \cup {df_bottom[i].POS : i \in {j \in DOMAIN df_bottom : df_bottom[j].CHR = c}})

\* the sum of the largest joint positions of the chromosomes before c
JointOffsetBefore(c) ==
    LET earlier == ({df_top[i].CHR : i \in DOMAIN df_top}
                    \cup {df_bottom[i].CHR : i \in DOMAIN df_bottom}) \cap (1..(c - 1))
    IN  SumOver(earlier, [x \in earlier |-> JointMaxPosOn(x)])

\* C14: every record of either panel has rel_pos = POS + the sum of the
\* largest positions, over both tables together, of the chromosomes before
\* its own; so records of the upper and the lower panel with the same
\* chromosome and position have the same rel_pos.
C14_JointLayout ==
    pc \in {"miami_scatter", "miami_done"} =>
        /\ \A i \in DOMAIN plot_data.upper :
            plot_data.upper[i].rel_pos =
                plot_data.upper[i].POS + JointOffsetBefore(plot_data.upper[i].CHR)
        /\ \A j \in DOMAIN plot_data.lower :
            plot_data.lower[j].rel_pos =
                plot_data.lower[j].POS + JointOffsetBefore(plot_data.lower[j].CHR)
        /\ \A i \in DOMAIN plot_data.upper, j \in DOMAIN plot_data.lower :
            (/\ plot_data.upper[i].CHR = plot_data.lower[j].CHR
             /\ plot_data.upper[i].POS = plot_data.lower[j].POS)
                => plot_data.upper[i].rel_pos = plot_data.lower[j].rel_pos
        /\ SnpSet(plot_data.upper) = SnpSet(df_top)
        /\ SnpSet(plot_data.lower) = SnpSet(df_bottom)

\* both tables hold the variant of chromosome 2, and the two tables differ
\* in their largest position on chromosome 1
C14_Witness ==
    /\ pc = "miami_done"
    /\ SnpSet(df_top) = {1, 3}
    /\ SnpSet(df_bottom) = {2, 3}
    /\ \E i \in DOMAIN plot_data.upper, j \in DOMAIN plot_data.lower :
        /\ plot_data.upper[i].SNP = 3
        /\ plot_data.lower[j].SNP = 3
        /\ plot_data.upper[i].rel_pos = 250
        /\ plot_data.lower[j].rel_pos = 250

-----------------------------------------------------------------------------
(* Claims about the annotation of the top hits *)

\* C15: after annotate_top_hits has returned, the gene stored for a hit
\* whose lookup returned None is the string "NA", and the gene stored for a
\* hit whose lookup returned a context is element 0 of that context.
C15_SentinelNA ==
    pc = "annotate_done" =>
        \A i \in DOMAIN df_hits :
            df_hits[i].GENE = IF variant_context[i] = None THEN "NA"
                              ELSE variant_context[i][1][1]

-----------------------------------------------------------------------------
(* Claims about the classifier on empty tables *)

\* C16: when one of the two tables (or both) is empty, classify_annotations
\* returns without error, no row is tagged on_both, and the output is the
\* rows of the other table, each once and in their order, tagged
\* top_in_bottom for the top table and bottom_in_top for the bottom table.
C16_EmptySide ==
    (pc = "classify_done" /\ (df_top_highlts = <<>> \/ df_bottom_highlts = <<>>)) =>
        /\ exception = "none"
        /\ RowsOfType("on_both") = 0
        /\ classified =
                set_column_type(df_top_highlts, "top_in_bottom")
                    \o set_column_type(df_bottom_highlts, "bottom_in_top")
        /\ Len(classified) = Len(df_top_highlts) + Len(df_bottom_highlts)
        /\ (NoRepeatedId(df_top_highlts) /\ NoRepeatedId(df_bottom_highlts)) =>
                \A s \in AllInputIds :
                    Cardinality({i \in DOMAIN classified : classified[i].SNP = s}) = 1

\* a table of two variants has been classified against an empty table
C16_Witness ==
    /\ pc = "classify_done"
    /\ df_bottom_highlts = <<>>
    /\ Len(df_top_highlts) = 2
    /\ NoRepeatedId(df_top_highlts)
    /\ RowsOfType("top_in_bottom") = 2

\* both tables empty: nothing is returned and nothing raised
BothEmptyReached ==
    /\ pc = "classify_done"
    /\ df_top_highlts = <<>>
    /\ df_bottom_highlts = <<>>
    /\ classified = <<>>

-----------------------------------------------------------------------------
(* Claims about the colours of the Manhattan plot *)

\* the chromosome ids of the association table
GwasChromosomes == {df_gwas[i].CHR : i \in DOMAIN df_gwas}

\* the place, counted from 0, of chromosome c among the ascending ids
TraversalIndex(c) == Cardinality({x \in GwasChromosomes : x < c})

\* C17: once the groups are drawn, the point of every record has the colour
\* of colors at its chromosome's traversal index mod 2, records of one
\* chromosome share a colour, and chromosomes adjacent in ascending order
\* have different colours.
C17_TwoColourCycle ==
    pc \in {"manhattan_annotate", "manhattan_limits", "manhattan_done"} =>
        /\ Len(ax.points) = Len(df)
        /\ \A i \in DOMAIN df :
            ax.points[i].color =
                IF TraversalIndex(df[i].CHR) % 2 = 0 THEN "grey" ELSE "skyblue"
        /\ \A i, j \in DOMAIN df :
            /\ df[i].CHR = df[j].CHR => ax.points[i].color = ax.points[j].color
            /\ TraversalIndex(df[j].CHR) = TraversalIndex(df[i].CHR) + 1
                    => ax.points[i].color # ax.points[j].color

\* three chromosomes, the first with two records, have been drawn: the
\* third has the colour of the first again
C17_Witness ==
    /\ pc = "manhattan_done"
    /\ Len(df) = 4
    /\ ax.points[1].color = "grey"
    /\ ax.points[2].color = "grey"
    /\ ax.points[3].color = "skyblue"
    /\ ax.points[4].color = "grey"

-----------------------------------------------------------------------------
(* Claims about plot_drawings *)

\* C18: for either value of annotate, once plot_drawings has made its call
\* of manhattan_plot the annotation argument was bound, the table holds the
\* columns manhattan_plot reads, and nothing has been raised.
C18_DrawingsComplete ==
    pc \notin {"idle", "drawings_manhattan"} =>
        /\ exception = "none"
        /\ (annotate => df_annot # Unbound)
        /\ manhattan_columns \subseteq usecols

====
